---- MODULE Spec2Model ----
(***************************************************************************)
(* A model of yawf's request dispatch core: the execution context and its  *)
(* run loop (context), the route-scoped context and the pattern matcher    *)
(* (routeContext, route), the router's dispatch (router.Handle), the two   *)
(* return-value protocols (return_handler.go) and the server's shutdown    *)
(* bookkeeping (yawf.Stop, yawf.ServeHTTP, yawf.Run).                      *)
(***************************************************************************)
EXTENDS Integers, Sequences, FiniteSets, TLC

VARIABLES
    handlers,     \* yawf.handlers / context.handlers: the global middleware chain
    routes,       \* router.routes, in registration order
    notFounds,    \* router.notFounds
    req,          \* the request: [method, path]
    rets,         \* the values the registered handlers return
    index,        \* context.index of the top-level context
    rw,           \* the response tracker: the calls made on it, in order
    rctx,         \* the routeContext of the request: [made, index, handlers, route]
    params,       \* the PathParams mapped into the request's container
    stack,        \* the call stack of the request's goroutine
    invoked,      \* history: the handlers invoked so far, in order
    stops,        \* history: the calls of Stop() made by handlers
    returns,      \* history: the returns of handlers to their run loops, in order
    calls,        \* history: the calls the handlers' bodies made on Context and response
    activeCount,  \* yawf.activeCount
    countHist,    \* every value activeCount has held (what an unsynchronised read may see)
    isStopping,   \* yawf.isStopping
    cClose,       \* number of signals buffered in yawf.cClose
    closed,       \* whether the listener was closed
    sent,         \* history: number of closure signals sent on cClose
    rpc,          \* per request of the server: where its ServeHTTP is
    spc,          \* where the call of Stop() is
    runpc,        \* where the call of Run() is
    atStop,       \* history: the requests in flight when Stop() was called
    groups,       \* router.groups: the stack of the groups whose fn is running
    gcalls,       \* history: the calls of Group in progress, outermost first
    greturns,     \* history: the returns of Group, in order, each with the stack before and after
    regs,         \* history: the call of addRoute that registered routes[j], the calls of
                  \* Group in progress then, and the number of returns of Group before it
    phase,        \* "config", "serving", or "panicked" (a fatal failure)
    values,       \* the containers (inject.Injector): of the server and of each request
    resolved,     \* history: per request, the values its handlers resolved
    url           \* a call of router.URLFor: the route's name, the arguments, the result

ctxVars == <<handlers, routes, notFounds, req, rets, index, rw, rctx, params, stack, invoked, stops, returns,
            calls>>
srvVars == <<activeCount, countHist, isStopping, cClose, closed, sent, rpc, spc, runpc, atStop>>
regVars == <<groups, gcalls, greturns, regs, phase>>
vars == <<handlers, routes, notFounds, req, rets, index, rw, rctx, params, stack, invoked,
          stops, returns, calls, activeCount, countHist, isStopping, cClose, closed, sent, rpc, spc, runpc, atStop,
          groups, gcalls, greturns, regs, phase, values, resolved, url>>
auxVars == <<values, resolved, url>>

(***************************************************************************)
(* Bounds of the model.                                                    *)
(***************************************************************************)
MaxGlobal == 2      \* global middleware handlers registered with Use
MaxCalls == 2       \* calls the handlers of a request make on Context and response
MaxReqs == 2        \* requests the server serves

(***************************************************************************)
(* Values a handler returns (reflect.Value): a kind, and a payload.  ptr   *)
(* says the value is a pointer to the value described by the other fields. *)
(***************************************************************************)
BoolV(b) == [k |-> "bool", n |-> IF b THEN 1 ELSE 0, s |-> <<>>, ptr |-> FALSE]
IntV(n) == [k |-> "int", n |-> n, s |-> <<>>, ptr |-> FALSE]
StrV(s) == [k |-> "string", n |-> 0, s |-> s, ptr |-> FALSE]
BytesV(s) == [k |-> "bytes", n |-> 0, s |-> s, ptr |-> FALSE]
ObjV(s) == [k |-> "struct", n |-> 0, s |-> s, ptr |-> FALSE]
PtrV(v) == [v EXCEPT !.ptr = TRUE]

Kind(v) == IF v.ptr THEN "ptr" ELSE v.k
Elem(v) == [v EXCEPT !.ptr = FALSE]

isString(val) == Kind(val) = "string"
isByteSlice(val) == Kind(val) = "bytes"
canDeref(val) == Kind(val) \in {"interface", "ptr"}

\* Byte codes of the characters the model writes.
ByteOf(c) ==
    CASE c = "0" -> 48 [] c = "1" -> 49 [] c = "2" -> 50 [] c = "3" -> 51
      [] c = "4" -> 52 [] c = "5" -> 53 [] c = "6" -> 54 [] c = "7" -> 55
      [] c = "8" -> 56 [] c = "9" -> 57 [] c = "a" -> 97 [] c = "b" -> 98
      [] c = "d" -> 100 [] c = "e" -> 101 [] c = "f" -> 102 [] c = "i" -> 105
      [] c = "l" -> 108 [] c = "r" -> 114 [] c = "s" -> 115 [] c = "t" -> 116
      [] c = "u" -> 117 [] c = "{" -> 123 [] c = "}" -> 125 [] c = ":" -> 58
      [] c = "\"" -> 34 [] c = "-" -> 45 [] c = "/" -> 47 [] c = " " -> 32
      [] c = "g" -> 103 [] c = "n" -> 110 [] c = "o" -> 111 [] c = "p" -> 112
      [] c = "\n" -> 10

BytesOf(cs) == [j \in 1..Len(cs) |-> ByteOf(cs[j])]

DigitChar(d) == <<"0", "1", "2", "3", "4", "5", "6", "7", "8", "9">>[d + 1]

RECURSIVE Digits(_)
Digits(n) == IF n < 10 THEN <<DigitChar(n)>> ELSE Digits(n \div 10) \o <<DigitChar(n % 10)>>

\* strconv / encoding/json of an int
FormatInt(n) == IF n < 0 THEN <<"-">> \o Digits(-n) ELSE Digits(n)

\* json.Marshal of the values that reach it in the model: a bool, an int, and a
\* struct with one string field "id" (its field held in s).
Marshal(v) ==
    CASE v.k = "bool" -> BytesOf(IF v.n = 1 THEN <<"t", "r", "u", "e">>
                                          ELSE <<"f", "a", "l", "s", "e">>)
      [] v.k = "int" -> BytesOf(FormatInt(v.n))
      [] v.k = "struct" -> BytesOf(<<"{", "\"", "i", "d", "\"", ":", "\"">>) \o v.s
                             \o BytesOf(<<"\"", "}">>)

(***************************************************************************)
(* The response tracker (ResponseWriter): the calls made on the response,  *)
(* in order.  Written() reports whether a status or a body was emitted.    *)
(***************************************************************************)
WriteHeaderCall(status) == [op |-> "WriteHeader", status |-> status, body |-> <<>>]
WriteCall(body) == [op |-> "Write", status |-> 0, body |-> body]

rwWriteHeader(w, status) == Append(w, WriteHeaderCall(status))
rwWrite(w, body) == Append(w, WriteCall(body))
Written(w) == w # <<>>

\* The status the client sees: the first WriteHeader if it comes before any
\* Write, else the 200 that the first Write implies; 0 while nothing was sent.
StatusOf(w) == IF w = <<>> THEN 0 ELSE IF w[1].op = "WriteHeader" THEN w[1].status ELSE 200

RECURSIVE BodyOf(_)
BodyOf(w) == IF w = <<>> THEN <<>> ELSE w[1].body \o BodyOf(Tail(w))

(***************************************************************************)
(* return_handler.go: the two return-value protocols.  Each yields the     *)
(* response after the protocol ran and whether it called ctx.Stop().       *)
(***************************************************************************)
isPassthrough(vals) ==
    Len(vals) = 0 \/ (Len(vals) >= 1 /\ Kind(vals[1]) = "bool" /\ vals[1].n = 1)

isFalse(vals) == Len(vals) = 1 /\ Kind(vals[1]) = "bool" /\ vals[1].n # 1

\* the status without the test of the first value's kind
statusAlways200(vals) == 200

\* the status written first when more than one value is returned
statusOfVals(vals) == IF Kind(vals[1]) = "int" THEN vals[1].n ELSE 200

responseVal(vals) ==
    LET v == IF Len(vals) > 1 THEN vals[2] ELSE vals[1]
    IN  IF canDeref(v) THEN Elem(v) ELSE v

bodyBytes(v) ==
    IF isByteSlice(v) THEN v.s
    ELSE IF isString(v) THEN v.s
    ELSE Marshal(v)

writeValues(w, vals) ==
    LET w1 == IF Len(vals) > 1 THEN rwWriteHeader(w, statusOfVals(vals)) ELSE w
    IN  rwWrite(w1, bodyBytes(responseVal(vals)))

\* the route protocol stopping after a write, as the middleware protocol does
routerReturnHandlerStopping(w, vals) ==
    IF isPassthrough(vals) THEN [rw |-> w, stop |-> FALSE]
    ELSE IF isFalse(vals) THEN [rw |-> rwWrite(w, <<>>), stop |-> TRUE]
    ELSE [rw |-> writeValues(w, vals), stop |-> TRUE]

defaultRouterReturnHandler(w, vals) ==
    IF isPassthrough(vals) THEN [rw |-> w, stop |-> FALSE]
    ELSE IF isFalse(vals) THEN [rw |-> rwWrite(w, <<>>), stop |-> TRUE]
    ELSE [rw |-> writeValues(w, vals), stop |-> FALSE]

defaultMiddlewareReturnHandler(w, vals) ==
    IF isPassthrough(vals) THEN [rw |-> w, stop |-> FALSE]
    ELSE IF isFalse(vals) THEN [rw |-> rwWrite(w, <<>>), stop |-> TRUE]
    ELSE [rw |-> writeValues(w, vals), stop |-> TRUE]

(***************************************************************************)
(* route: newRoute compiles a pattern (a sequence of characters) into a    *)
(* regular expression, here a sequence of elements:                        *)
(*   lit c     the character c                                             *)
(*   seg name  a named group of one or more characters other than / # ?,   *)
(*             from a token :name                                          *)
(*   star name a group named _n of any number of characters other than     *)
(*             # ?, from the n-th token made of two stars                  *)
(*   optslash  an optional /, appended to every pattern                    *)
(***************************************************************************)
Lit(c) == [t |-> "lit", c |-> c, name |-> <<>>]
Seg(name) == [t |-> "seg", c |-> "", name |-> name]
Star(n) == [t |-> "star", c |-> "", name |-> <<"_">> \o Digits(n)]
OptSlash == [t |-> "optslash", c |-> "", name |-> <<>>]

\* routeReg1: the characters a parameter name is made of
NameChar(c) == c \notin {"/", "#", "?", "(", ")", ".", "\\"}

RECURSIVE NameRun(_, _)
NameRun(p, i) == IF i <= Len(p) /\ NameChar(p[i]) THEN 1 + NameRun(p, i + 1) ELSE 0

RECURSIVE compile(_, _, _)
compile(p, i, n) ==
    IF i > Len(p) THEN <<OptSlash>>
    ELSE IF p[i] = ":" /\ NameRun(p, i + 1) > 0
         THEN LET len == NameRun(p, i + 1)
              IN  <<Seg(SubSeq(p, i + 1, i + len))>> \o compile(p, i + 1 + len, n)
    ELSE IF p[i] = "*" /\ i < Len(p) /\ p[i + 1] = "*"
         THEN <<Star(n + 1)>> \o compile(p, i + 2, n + 1)
    ELSE <<Lit(p[i])>> \o compile(p, i + 1, n)

newRoute(method, pattern, hs) ==
    [method |-> method, regex |-> compile(pattern, 1, 0), handlers |-> hs,
     pattern |-> pattern, name |-> ""]

(***************************************************************************)
(* regexp.FindStringSubmatch: the leftmost match, and among the matches at *)
(* that place the one a backtracking search with greedy operators finds    *)
(* first.  pos counts the characters consumed.                             *)
(***************************************************************************)
NoSubmatch == [ok |-> FALSE, start |-> 0, end |-> 0, caps |-> <<>>]

\* the characters the class of a seg / star element accepts
InClass(e, c) == IF e.t = "seg" THEN c \notin {"/", "#", "?"} ELSE c \notin {"#", "?"}

RECURSIVE ClassRun(_, _, _)
ClassRun(e, s, pos) ==
    IF pos < Len(s) /\ InClass(e, s[pos + 1]) THEN 1 + ClassRun(e, s, pos + 1) ELSE 0

RECURSIVE MatchAt(_, _, _, _), TryLen(_, _, _, _, _)
MatchAt(re, k, s, pos) ==
    IF k > Len(re) THEN [ok |-> TRUE, start |-> 0, end |-> pos, caps |-> <<>>]
    ELSE LET e == re[k]
         IN  CASE e.t = "lit" ->
                    IF pos < Len(s) /\ s[pos + 1] = e.c
                    THEN MatchAt(re, k + 1, s, pos + 1) ELSE NoSubmatch
               [] e.t = "optslash" ->
                    LET with == IF pos < Len(s) /\ s[pos + 1] = "/"
                                THEN MatchAt(re, k + 1, s, pos + 1) ELSE NoSubmatch
                    IN  IF with.ok THEN with ELSE MatchAt(re, k + 1, s, pos)
               [] OTHER -> TryLen(re, k, s, pos, ClassRun(e, s, pos))

TryLen(re, k, s, pos, n) ==
    IF n < (IF re[k].t = "seg" THEN 1 ELSE 0) THEN NoSubmatch
    ELSE LET rest == MatchAt(re, k + 1, s, pos + n)
         IN  IF rest.ok
             THEN [rest EXCEPT !.caps = <<<<re[k].name, SubSeq(s, pos + 1, pos + n)>>>> \o @]
             ELSE TryLen(re, k, s, pos, n - 1)

RECURSIVE FindFrom(_, _, _)
FindFrom(re, s, start) ==
    IF start > Len(s) THEN NoSubmatch
    ELSE LET m == MatchAt(re, 1, s, start)
         IN  IF m.ok THEN [m EXCEPT !.start = start] ELSE FindFrom(re, s, start + 1)

FindStringSubmatch(re, s) == FindFrom(re, s, 0)

\* RouteMatch
NoMatch == 0
StarMatch == 1
OverloadMatch == 2
ExactMatch == 3

\* a comparison that lets an equal rank replace the best
BetterOrEqual(r, o) == r >= o

BetterThan(r, o) == r > o

MatchMethod(r, method) ==
    IF method = r.method THEN ExactMatch
    ELSE IF method = "HEAD" /\ r.method = "GET" THEN OverloadMatch
    ELSE IF r.method = "*" THEN StarMatch
    ELSE NoMatch

\* params[name] = matches[i] for every named group, in the groups' order
paramsOf(caps) ==
    {<<caps[j][1], caps[j][2]>> : j \in {j \in 1..Len(caps) :
        \A l \in (j + 1)..Len(caps) : caps[l][1] # caps[j][1]}}

\* a match that accepts a path the pattern matches a prefix of
MatchPrefix(r, method, path) ==
    LET match == MatchMethod(r, method)
        matches == FindStringSubmatch(r.regex, path)
    IN  IF match = NoMatch THEN [match |-> NoMatch, vals |-> {}]
        ELSE IF matches.ok /\ matches.start = 0
        THEN [match |-> match, vals |-> paramsOf(matches.caps)]
        ELSE [match |-> NoMatch, vals |-> {}]

Match(r, method, path) ==
    LET match == MatchMethod(r, method)
        matches == FindStringSubmatch(r.regex, path)
    IN  IF match = NoMatch THEN [match |-> NoMatch, vals |-> {}]
        ELSE IF matches.ok /\ SubSeq(path, matches.start + 1, matches.end) = path
        THEN [match |-> match, vals |-> paramsOf(matches.caps)]
        ELSE [match |-> NoMatch, vals |-> {}]

(***************************************************************************)
(* router: the scan of router.Handle over the routes, in registration      *)
(* order, leaving at the first ExactMatch.  route is the index of the best *)
(* route, 0 while there is none.                                           *)
(***************************************************************************)
RECURSIVE scanRoutes(_, _, _, _)
scanRoutes(rs, i, r, best) ==
    IF i > Len(rs) THEN best
    ELSE LET m == Match(rs[i], r.method, r.path)
         IN  IF BetterThan(m.match, best.bestMatch)
             THEN LET new == [bestMatch |-> m.match, bestVals |-> m.vals, bestRoute |-> i]
                  IN  IF m.match = ExactMatch THEN new ELSE scanRoutes(rs, i + 1, r, new)
             ELSE scanRoutes(rs, i + 1, r, best)

bestOf(rs, r) == scanRoutes(rs, 1, r, [bestMatch |-> NoMatch, bestVals |-> {}, bestRoute |-> 0])

(***************************************************************************)
(* context and routeContext: the two execution contexts.  The goroutine of *)
(* the request is a stack of frames:                                       *)
(*   run     an activation of context.run (the top-level context)          *)
(*   rrun    an activation of routeContext.run                             *)
(*   h       the body of a handler, handler h at index i of the chain of   *)
(*           context ctx, which made ops calls so far                      *)
(*   Handle  router.Handle, the action of the top-level context            *)
(* n counts the handlers an activation of a run loop has invoked.          *)
(***************************************************************************)
Frame(f, ctx, i, h, pc) == [f |-> f, ctx |-> ctx, i |-> i, h |-> h, pc |-> pc, ops |-> 0, n |-> 0]

Top == stack[Len(stack)]
Pop(st) == SubSeq(st, 1, Len(st) - 1)
SetTop(st, fr) == [st EXCEPT ![Len(st)] = fr]

\* history, an invocation: handler h, at index i of context ctx, is invoked;
\* w: Written() at that time; first: by the first pass of an activation of
\* the run loop
Invocation(ctx, i, h, first) ==
    [ctx |-> ctx, i |-> i, h |-> h, w |-> Written(rw), first |-> first]

\* history, a call of Stop(): by handler i of context ctx, after k invocations
StopCall(ctx, i) == [ctx |-> ctx, i |-> i, k |-> Len(invoked)]

\* history, a return: handler i of context ctx returned vals after k
\* invocations, when the response had received at calls and the top-level
\* cursor was idx0; the run loop left the response with at1 calls and the
\* cursor at idx1, and goes on (cont) or returns
Returned(ctx, i, vals, w, idx1, cont) ==
    [ctx |-> ctx, i |-> i, vals |-> vals, k |-> Len(invoked), at |-> Len(rw),
     at1 |-> Len(w), idx0 |-> index, idx1 |-> idx1, cont |-> cont]

\* handlers are known by name: the handlers of the application, and net/http's
\* NotFound, the default of router.notFounds
HandlerName(prefix, j) == <<prefix, j>>
HttpNotFound == HandlerName("http.NotFound", 0)

\* an IsStopped that lets the cursor go one place further
IsStoppedLate(idx, hs) == ~(idx <= Len(hs) + 1)

IsStopped(idx, hs) == ~(idx <= Len(hs))

\* context.handler: the handler at the cursor, the action at len(handlers), and
\* a panic for any other index (a negative one fails in the index expression)
InvalidIndex == HandlerName("panic: invalid index for context handler", 0)
IndexOutOfRange == HandlerName("panic: index out of range", 0)
contextHandler(hs, idx) ==
    IF idx < Len(hs) THEN (IF idx >= 0 THEN hs[idx + 1] ELSE IndexOutOfRange)
    ELSE IF idx = Len(hs) THEN HandlerName("Handle", 0)
    ELSE InvalidIndex

NoRouteContext == [made |-> FALSE, index |-> 0, handlers |-> <<>>, route |-> 0]

\* the values the handlers of the model return: the shapes the protocols
\* tell apart, and the kinds of value a body is made from
Body == <<97>>
RetShapes ==
    { <<>>, <<BoolV(TRUE)>>, <<BoolV(FALSE)>>, <<StrV(Body)>>, <<IntV(201), StrV(Body)>> }
RetVals ==
    RetShapes \cup
    { <<BoolV(TRUE), StrV(Body)>>, <<BytesV(Body)>>, <<ObjV(<<55>>)>>, <<IntV(7)>>,
      <<PtrV(StrV(Body))>>, <<IntV(404), BytesV(Body)>>, <<IntV(200), ObjV(<<55>>)>>,
      <<IntV(500), PtrV(ObjV(<<55>>))>>, <<IntV(201), BoolV(FALSE)>>,
      <<StrV(Body), StrV(Body)>>, <<BoolV(FALSE), StrV(Body)>>,
      <<IntV(201), StrV(Body), StrV(Body)>> }

\* yawf.ServeHTTP: CreateContext(res, req).Next()
ServeHTTP ==
    /\ stack = <<>> /\ index = -1
    /\ index' = index + 1
    /\ stack' = <<Frame("run", "top", 0, HandlerName("", 0), "loop")>>
    /\ UNCHANGED <<handlers, routes, notFounds, req, rets, rw, rctx, params, invoked, stops, returns, calls>>

\* context.run, the head of the loop: invoke the handler at index (the action
\* when index = len(handlers)), or return when the context is stopped
contextRun ==
    /\ stack # <<>> /\ Top.f = "run" /\ Top.pc = "loop"
    /\ IF ~IsStopped(index, handlers)
       THEN /\ stack' = Append(SetTop(stack, [Top EXCEPT !.pc = "call", !.n = @ + 1]),
                               IF index < Len(handlers)
                               THEN Frame("h", "top", index, handlers[index + 1], "body")
                               ELSE Frame("Handle", "top", index, HandlerName("Handle", 0), "start"))
            /\ invoked' = Append(invoked, Invocation("top", index,
                                    IF index < Len(handlers) THEN handlers[index + 1]
                                    ELSE HandlerName("Handle", 0), Top.n = 0))
       ELSE /\ stack' = Pop(stack)
            /\ invoked' = invoked
    /\ UNCHANGED <<handlers, routes, notFounds, req, rets, index, rw, rctx, params, stops, returns, calls>>

\* context.run without its check of Written()
afterHandlerNoWrittenCheck(vals) ==
    LET ret == defaultMiddlewareReturnHandler(rw, vals)
        idx == (IF ret.stop THEN Len(handlers) + 1 ELSE index) + 1
        below == Pop(stack)
        leave == IsStopped(idx, handlers)
    IN  /\ rw' = ret.rw
        /\ index' = idx
        /\ stack' = IF leave THEN Pop(below)
                    ELSE SetTop(below, [below[Len(below)] EXCEPT !.pc = "loop"])
        /\ returns' = Append(returns, Returned("top", Top.i, vals, ret.rw, idx, ~leave))

\* context.run, after the handler returned vals: the middleware protocol, the
\* advance of the cursor, and the two checks that leave the loop
afterHandler(vals) ==
    LET ret == defaultMiddlewareReturnHandler(rw, vals)
        idx == (IF ret.stop THEN Len(handlers) + 1 ELSE index) + 1
        below == Pop(stack)
        leave == Written(ret.rw) \/ IsStopped(idx, handlers)
    IN  /\ rw' = ret.rw
        /\ index' = idx
        /\ stack' = IF leave THEN Pop(below)
                    ELSE SetTop(below, [below[Len(below)] EXCEPT !.pc = "loop"])
        /\ returns' = Append(returns, Returned("top", Top.i, vals, ret.rw, idx, ~leave))

\* a handler of the global chain returns
contextReturn(vals) ==
    /\ stack # <<>> /\ Top.f = "h" /\ Top.ctx = "top"
    /\ afterHandler(vals)
    /\ UNCHANGED <<handlers, routes, notFounds, req, rets, rctx, params, invoked, stops, calls>>

\* context.Next, called by a handler of the global chain
contextNext ==
    /\ stack # <<>> /\ Top.f = "h" /\ Top.ctx = "top" /\ calls < MaxCalls
    /\ index' = index + 1
    /\ stack' = Append(SetTop(stack, [Top EXCEPT !.ops = @ + 1]),
                       Frame("run", "top", 0, HandlerName("", 0), "loop"))
    /\ calls' = calls + 1
    /\ UNCHANGED <<handlers, routes, notFounds, req, rets, rw, rctx, params, invoked, stops, returns>>

\* Stop, called by a handler on the Context injected into it: context.Stop for
\* a handler of the global chain, and for a handler of a route too, whose
\* routeContext embeds the top-level Context and declares no Stop of its own
contextStop ==
    /\ stack # <<>> /\ Top.f = "h" /\ Top.h # HttpNotFound /\ calls < MaxCalls
    /\ index' = Len(handlers) + 1
    /\ stack' = SetTop(stack, [Top EXCEPT !.ops = @ + 1])
    /\ stops' = stops \cup {StopCall(Top.ctx, Top.i)}
    /\ calls' = calls + 1
    /\ UNCHANGED <<handlers, routes, notFounds, req, rets, rw, rctx, params, invoked, returns>>

\* a handler writes to the http.ResponseWriter injected into it
Write ==
    /\ stack # <<>> /\ Top.f = "h" /\ Top.h # HttpNotFound /\ calls < MaxCalls
    /\ rw' = rwWrite(rw, Body)
    /\ stack' = SetTop(stack, [Top EXCEPT !.ops = @ + 1])
    /\ calls' = calls + 1
    /\ UNCHANGED <<handlers, routes, notFounds, req, rets, index, rctx, params, invoked, stops, returns>>

\* router.Handle sending every match short of an ExactMatch to notFounds
HandleExactOnly ==
    /\ stack # <<>> /\ Top.f = "Handle" /\ Top.pc = "start"
    /\ LET best == bestOf(routes, req)
       IN  IF best.bestMatch = ExactMatch
           THEN /\ params' = best.bestVals
                /\ rctx' = [made |-> TRUE, index |-> 0,
                            handlers |-> routes[best.bestRoute].handlers,
                            route |-> best.bestRoute]
           ELSE /\ params' = params
                /\ rctx' = [made |-> TRUE, index |-> 0, handlers |-> notFounds, route |-> 0]
    /\ stack' = Append(SetTop(stack, [Top EXCEPT !.pc = "call"]),
                       Frame("rrun", "route", 0, HandlerName("", 0), "loop"))
    /\ UNCHANGED <<handlers, routes, notFounds, req, rets, index, rw, invoked, stops, returns, calls>>

\* router.Handle: pick the best route; map its PathParams and run a new
\* routeContext over its handlers (route.Handle), or over notFounds
Handle ==
    /\ stack # <<>> /\ Top.f = "Handle" /\ Top.pc = "start"
    /\ LET best == bestOf(routes, req)
       IN  IF best.bestMatch # NoMatch
           THEN /\ params' = best.bestVals
                /\ rctx' = [made |-> TRUE, index |-> 0,
                            handlers |-> routes[best.bestRoute].handlers,
                            route |-> best.bestRoute]
           ELSE /\ params' = params
                /\ rctx' = [made |-> TRUE, index |-> 0, handlers |-> notFounds, route |-> 0]
    /\ stack' = Append(SetTop(stack, [Top EXCEPT !.pc = "call"]),
                       Frame("rrun", "route", 0, HandlerName("", 0), "loop"))
    /\ UNCHANGED <<handlers, routes, notFounds, req, rets, index, rw, invoked, stops, returns, calls>>

\* router.Handle returns (no values) once the run of its routeContext returned
HandleReturn ==
    /\ stack # <<>> /\ Top.f = "Handle" /\ Top.pc = "call"
    /\ afterHandler(<<>>)
    /\ UNCHANGED <<handlers, routes, notFounds, req, rets, rctx, params, invoked, stops, calls>>

\* routeContext.run, the head of the loop
routeContextRun ==
    /\ stack # <<>> /\ Top.f = "rrun"
    /\ IF rctx.index < Len(rctx.handlers)
       THEN /\ stack' = Append(SetTop(stack, [Top EXCEPT !.pc = "call", !.n = @ + 1]),
                               Frame("h", "route", rctx.index,
                                     rctx.handlers[rctx.index + 1], "body"))
            /\ invoked' = Append(invoked, Invocation("route", rctx.index,
                                    rctx.handlers[rctx.index + 1], Top.n = 0))
       ELSE /\ stack' = Pop(stack)
            /\ invoked' = invoked
    /\ UNCHANGED <<handlers, routes, notFounds, req, rets, index, rw, rctx, params, stops, returns, calls>>

\* routeContext.run, after the handler returned vals: the cursor advances; any
\* returned value goes to the route protocol and ends the loop; so does a
\* response already written
afterRouteHandler(w, vals) ==
    LET ret == IF Len(vals) > 0 THEN defaultRouterReturnHandler(w, vals)
                                ELSE [rw |-> w, stop |-> FALSE]
        below == Pop(stack)
        idx == IF ret.stop THEN Len(handlers) + 1 ELSE index
        leave == Len(vals) > 0 \/ Written(ret.rw)
    IN  /\ rctx' = [rctx EXCEPT !.index = @ + 1]
        /\ rw' = ret.rw
        /\ index' = idx
        /\ stack' = IF leave THEN Pop(below)
                    ELSE SetTop(below, [below[Len(below)] EXCEPT !.pc = "loop"])
        /\ returns' = Append(returns, Returned("route", Top.i, vals, ret.rw, idx, ~leave))

\* a handler of the route's (or the not-found) chain returns
routeContextReturn(vals) ==
    /\ stack # <<>> /\ Top.f = "h" /\ Top.ctx = "route" /\ Top.h # HttpNotFound
    /\ afterRouteHandler(rw, vals)
    /\ UNCHANGED <<handlers, routes, notFounds, req, rets, params, invoked, stops, calls>>

\* net/http's NotFound, the default not-found handler: status 404 and a
\* one-line body; it returns nothing
NotFoundBody ==
    BytesOf(<<"4", "0", "4", " ", "p", "a", "g", "e", " ", "n", "o", "t", " ",
              "f", "o", "u", "n", "d", "\n">>)

httpNotFound ==
    /\ stack # <<>> /\ Top.f = "h" /\ Top.ctx = "route" /\ Top.h = HttpNotFound
    /\ afterRouteHandler(rwWrite(rwWriteHeader(rw, 404), NotFoundBody), <<>>)
    /\ UNCHANGED <<handlers, routes, notFounds, req, rets, params, invoked, stops, calls>>

\* routeContext.Next, called by a handler of a route
routeContextNext ==
    /\ stack # <<>> /\ Top.f = "h" /\ Top.ctx = "route" /\ Top.h # HttpNotFound
    /\ calls < MaxCalls
    /\ rctx' = [rctx EXCEPT !.index = @ + 1]
    /\ stack' = Append(SetTop(stack, [Top EXCEPT !.ops = @ + 1]),
                       Frame("rrun", "route", 0, HandlerName("", 0), "loop"))
    /\ calls' = calls + 1
    /\ UNCHANGED <<handlers, routes, notFounds, req, rets, index, rw, params, invoked, stops, returns>>

(***************************************************************************)
(* yawf: the server's shutdown bookkeeping.  Each request r is served      *)
(* by its own goroutine; Stop() runs on another, Run() on a third.         *)
(***************************************************************************)
\* atomic.AddInt32; the counter stays within MaxReqs of zero, far from the
\* ends of an int32
\* an add that leaves the counter as it was
AddInt32Lost(x, d) == x

AddInt32(x, d) == x + d

\* a send on cClose (capacity 1) when there is room
send == /\ cClose < 1
        /\ cClose' = cClose + 1
        /\ sent' = sent + 1

\* the listener hands a request to ServeHTTP, which starts its dispatch
Accept(r) ==
    /\ rpc[r] = "idle" /\ ~closed
    /\ rpc' = [rpc EXCEPT ![r] = "dispatch"]
    /\ UNCHANGED <<activeCount, countHist, isStopping, cClose, closed, sent, spc, runpc, atStop>>

\* yawf.ServeHTTP after the dispatch returned: the counter is decremented;
\* with isStopping read as set and the counter at zero it sleeps the graceful
\* delay and signals.  isStopping is read without synchronisation: the read
\* may miss a write of Stop()
ServeHTTPEnd(r) ==
    /\ rpc[r] = "dispatch"
    /\ activeCount' = AddInt32(activeCount, -1)
    /\ countHist' = countHist \cup {activeCount'}
    /\ \E seen \in {isStopping, FALSE} :
          IF seen /\ activeCount' = 0
          THEN send /\ rpc' = [rpc EXCEPT ![r] = "done"]
          ELSE /\ rpc' = [rpc EXCEPT ![r] = "done"]
               /\ UNCHANGED <<cClose, sent>>
    /\ UNCHANGED <<isStopping, closed, spc, runpc, atStop>>

\* yawf.Stop: s.isStopping = true
StopMark ==
    /\ spc = "idle"
    /\ isStopping' = TRUE
    /\ atStop' = {r \in DOMAIN rpc : rpc[r] = "dispatch"}
    /\ spc' = "marked"
    /\ UNCHANGED <<activeCount, countHist, cClose, closed, sent, rpc, runpc>>

\* yawf.Stop: s.Listener().Close()
StopClose ==
    /\ spc = "marked"
    /\ closed' = TRUE
    /\ spc' = "closing"
    /\ UNCHANGED <<activeCount, countHist, isStopping, cClose, sent, rpc, runpc, atStop>>

\* yawf.Stop: if s.activeCount == 0 { s.cClose <- true }.  The counter is read
\* without synchronisation: the read sees a value the counter has held
StopSignal ==
    /\ spc = "closing"
    /\ \E seen \in countHist :
          IF seen = 0 THEN send ELSE UNCHANGED <<cClose, sent>>
    /\ spc' = "done"
    /\ UNCHANGED <<activeCount, countHist, isStopping, closed, rpc, runpc, atStop>>

\* yawf.Run: Serve returned (the listener is closed) and <-s.cClose receives
RunReceive ==
    /\ runpc = "serving" /\ closed /\ cClose > 0
    /\ cClose' = cClose - 1
    /\ runpc' = "returned"
    /\ UNCHANGED <<activeCount, countHist, isStopping, closed, sent, rpc, spc, atStop>>

(***************************************************************************)
(* Registration: Use, the route registrations (all of them addRoute),      *)
(* Group and NotFound, called while the server is configured.  A handler   *)
(* is a func or some other value; a panic ends the program.                *)
(***************************************************************************)
MaxGroups == 2      \* calls of Group
MaxRegs == 2        \* routes registered by addRoute

\* a value registered as a handler that is not a func
NonCallable == HandlerName("noncallable", 0)

\* reflect.TypeOf(handler).Kind() == reflect.Func
IsFunc(handler) == handler[1] # "noncallable"

\* ValidateHandler: TRUE when it returns, FALSE when it panics
ValidateHandler(handler) == IsFunc(handler)

\* route.Validate: every handler of the route passes ValidateHandler
Validate(hs) == \A j \in DOMAIN hs : ValidateHandler(hs[j])

group(pattern, hs) == [pattern |-> pattern, handlers |-> hs]

\* addRoute: groupPattern += g.pattern, over the groups in stack order
RECURSIVE groupPattern(_)
groupPattern(gs) == IF gs = <<>> THEN <<>> ELSE gs[1].pattern \o groupPattern(Tail(gs))

\* addRoute: h = append(h, g.handlers...), over the groups in stack order
RECURSIVE groupHandlers(_)
groupHandlers(gs) == IF gs = <<>> THEN <<>> ELSE gs[1].handlers \o groupHandlers(Tail(gs))

\* addRoute registering the pattern as given, without the groups' prefixes
routeOfNoPrefix(gs, method, pattern, hs) ==
    newRoute(method, pattern, groupHandlers(gs) \o hs)

\* addRoute: the route made from the active groups and the arguments
routeOf(gs, method, pattern, hs) ==
    IF Len(gs) > 0
    THEN newRoute(method, groupPattern(gs) \o pattern, groupHandlers(gs) \o hs)
    ELSE newRoute(method, pattern, hs)

\* yawf.Use
Use(handler) ==
    /\ phase = "config" /\ Len(handlers) < MaxGlobal
    /\ IF ValidateHandler(handler)
       THEN handlers' = Append(handlers, handler) /\ phase' = phase
       ELSE handlers' = handlers /\ phase' = "panicked"
    /\ UNCHANGED <<routes, notFounds, groups, gcalls, greturns, regs>>

\* router.addRoute, reached from Get, Post, ..., Any and AddRoute
addRoute(method, pattern, hs) ==
    /\ phase = "config" /\ Len(routes) < MaxRegs
    /\ LET route == routeOf(groups, method, pattern, hs)
       IN  IF Validate(route.handlers)
           THEN /\ routes' = Append(routes, route)
                /\ regs' = Append(regs, [method |-> method, pattern |-> pattern,
                                         handlers |-> hs, active |-> gcalls,
                                         returned |-> Len(greturns)])
                /\ phase' = phase
           ELSE /\ routes' = routes /\ regs' = regs /\ phase' = "panicked"
    /\ UNCHANGED <<handlers, notFounds, groups, gcalls, greturns>>

\* router.Group: the group is pushed and fn(r) is called
Group(pattern, hs) ==
    /\ phase = "config" /\ Len(gcalls) + Len(greturns) < MaxGroups
    /\ groups' = Append(groups, group(pattern, hs))
    /\ gcalls' = Append(gcalls, [pattern |-> pattern, handlers |-> hs, before |-> groups])
    /\ UNCHANGED <<handlers, routes, notFounds, greturns, regs, phase>>

\* router.Group leaving the stack as fn left it
popNone(gs) == gs

\* router.Group: r.groups = r.groups[:len(r.groups)-1]
popGroup(gs) == SubSeq(gs, 1, Len(gs) - 1)

\* router.Group: fn(r) returned; the group is popped and Group returns
GroupReturn ==
    /\ phase = "config" /\ gcalls # <<>>
    /\ groups' = popGroup(groups)
    /\ gcalls' = SubSeq(gcalls, 1, Len(gcalls) - 1)
    /\ greturns' = Append(greturns, [call |-> gcalls[Len(gcalls)], depth |-> Len(gcalls),
                                     after |-> groups'])
    /\ UNCHANGED <<handlers, routes, notFounds, regs, phase>>

\* router.NotFound
NotFound(hs) ==
    /\ phase = "config" /\ notFounds = <<HttpNotFound>>
    /\ notFounds' = hs
    /\ UNCHANGED <<handlers, routes, groups, gcalls, greturns, regs, phase>>

\* yawf.Run, once the configuration is done: the server serves a request
Run(r) ==
    /\ phase = "config" /\ gcalls = <<>>
    /\ phase' = "serving"
    /\ req' = r
    /\ UNCHANGED <<handlers, routes, notFounds, groups, gcalls, greturns, regs>>

\* Invoke of a handler that is not a func panics
InvokePanics ==
    /\ phase = "serving" /\ stack # <<>> /\ Top.f = "rrun"
    /\ rctx.index < Len(rctx.handlers) /\ ~IsFunc(rctx.handlers[rctx.index + 1])
    /\ phase' = "panicked"
    /\ UNCHANGED <<handlers, routes, notFounds, req, groups, gcalls, greturns, regs>>

(***************************************************************************)
(* route.URLWith and router.URLFor.  urlReg has two alternatives: the      *)
(* parameter token of routeReg1, and a named regular-expression group,     *)
(* which runs from "(?P<name>" to the last ")" of the line.                *)
(***************************************************************************)
MaxArgs == 2        \* arguments of one call of URLFor

Alnum == {"a", "b", "c", "d", "e", "f", "g", "h", "i", "j", "k", "l", "m", "n", "o", "p", "q",
          "r", "s", "t", "u", "v", "w", "x", "y", "z", "A", "B", "C", "D", "E", "F", "G", "H",
          "I", "J", "K", "L", "M", "N", "O", "P", "Q", "R", "S", "T", "U", "V", "W", "X", "Y",
          "Z", "0", "1", "2", "3", "4", "5", "6", "7", "8", "9"}

RECURSIVE AlnumRun(_, _)
AlnumRun(p, i) == IF i <= Len(p) /\ p[i] \in Alnum THEN 1 + AlnumRun(p, i + 1) ELSE 0

\* the end of the named group that starts at i, 0 when none starts there
groupEnd(p, i) ==
    IF i + 3 <= Len(p) /\ SubSeq(p, i, i + 3) = <<"(", "?", "P", "<">> /\ AlnumRun(p, i + 4) > 0
    THEN LET gt == i + 4 + AlnumRun(p, i + 4)
             ends == {j \in (gt + 1)..Len(p) :
                        /\ p[j] = ")"
                        /\ \A l \in (gt + 1)..(j - 1) : p[l] # "\n"}
         IN  IF gt <= Len(p) /\ p[gt] = ">" /\ ends # {}
             THEN CHOOSE j \in ends : \A l \in ends : l <= j
             ELSE 0
    ELSE 0

\* the length of the match of urlReg that starts at i, 0 when none starts there
urlReg(p, i) ==
    IF p[i] = ":" /\ NameRun(p, i + 1) > 0 THEN 1 + NameRun(p, i + 1)
    ELSE IF groupEnd(p, i) > 0 THEN groupEnd(p, i) - i + 1
    ELSE 0

\* a replacement that takes the first argument for every token
argAlwaysFirst(args, i, m) == args[1]

\* the function URLWith replaces a token with: i counts the tokens before it
argOrToken(args, i, m) == IF i < Len(args) THEN args[i + 1] ELSE m

\* urlReg.ReplaceAllStringFunc over the pattern, from position j on
RECURSIVE replaceTokens(_, _, _, _)
replaceTokens(p, j, args, i) ==
    IF j > Len(p) THEN <<>>
    ELSE LET len == urlReg(p, j)
         IN  IF len > 0
             THEN argOrToken(args, i, SubSeq(p, j, j + len - 1))
                      \o replaceTokens(p, j + len, args, i + 1)
             ELSE <<p[j]>> \o replaceTokens(p, j + 1, args, i)

URLWith(r, args) == IF Len(args) > 0 THEN replaceTokens(r.pattern, 1, args, 0) ELSE r.pattern

RECURSIVE findRoute(_, _, _)
findRoute(rs, j, name) ==
    IF j > Len(rs) THEN 0
    ELSE IF rs[j].name = name THEN j
    ELSE findRoute(rs, j + 1, name)

\* a nil interface value among the arguments
NilV == [k |-> "nil", n |-> 0, s |-> <<>>, ptr |-> FALSE]

\* the arguments URLFor makes of its parameters; ok is false when it panics
RECURSIVE argsOf(_, _)
argsOf(ps, j) ==
    IF j > Len(ps) THEN [ok |-> TRUE, args |-> <<>>]
    ELSE LET v == ps[j]
             rest == argsOf(ps, j + 1)
         IN  IF v.k = "int" /\ ~v.ptr
             THEN IF rest.ok THEN [rest EXCEPT !.args = <<FormatInt(v.n)>> \o @] ELSE rest
             ELSE IF v.k = "string" /\ ~v.ptr
             THEN IF rest.ok THEN [rest EXCEPT !.args = <<v.s>> \o @] ELSE rest
             ELSE IF v.k = "nil" THEN rest
             ELSE [ok |-> FALSE, args |-> <<>>]

NoURL == [name |-> "", params |-> <<>>, called |-> FALSE, panic |-> "", url |-> <<>>]

URLForResult(rs, name, ps) ==
    LET route == findRoute(rs, 1, name)
        a == argsOf(ps, 1)
    IN  IF route = 0 THEN [panic |-> "route not found", url |-> <<>>]
        ELSE IF ~a.ok
        THEN [panic |-> "Arguments passed to URLFor must be integers or strings", url |-> <<>>]
        ELSE [panic |-> "", url |-> URLWith(rs[route], a.args)]

\* router.URLFor, called with the name and the parameters the state holds
URLFor ==
    /\ ~url.called
    /\ LET res == URLForResult(routes, url.name, url.params)
       IN  url' = [url EXCEPT !.called = TRUE, !.panic = res.panic, !.url = res.url]
    /\ UNCHANGED <<ctxVars, srvVars, regVars, values, resolved>>

\* route.SetName on the j-th route
SetName(j, name) ==
    /\ ~url.called
    /\ j \in DOMAIN routes /\ routes[j].name = ""
    /\ routes' = [routes EXCEPT ![j].name = name]
    /\ UNCHANGED <<handlers, notFounds, req, rets, index, rw, rctx, params, stack, invoked,
                   stops, returns, calls, srvVars, regVars, auxVars>>

(***************************************************************************)
(* The containers (inject.Injector).  An injector maps a type to a value   *)
(* and may have a parent; Map and MapTo write the injector they are called *)
(* on, Get reads it and falls back on the parent.  A value is modelled by  *)
(* the request during which it was written, 0 for the set-up of the        *)
(* server; NoValue is the invalid reflect.Value of a type that is not      *)
(* mapped.  Injector 0 is the server's, injector r the one NewContext      *)
(* creates for request r.                                                  *)
(***************************************************************************)
MaxGets == 2        \* values the handlers resolve

Types == {"Context", "ResponseWriter", "Request", "Headers", "QueryParams", "FormParams",
          "PathParams", "Route", "RouterReturnHandler", "MiddlewareReturnHandler", "Logger"}
NoValue == -1
NoParent == -1

\* inject.New()
injectNew == [values |-> [t \in Types |-> NoValue], parent |-> NoParent]

\* a Map that writes the parent of the injector when it has one
MapParent(vs, c, t, by) ==
    IF vs[c].parent # NoParent
    THEN [vs EXCEPT ![vs[c].parent].values[t] = by]
    ELSE [vs EXCEPT ![c].values[t] = by]

\* c.Map(v) and c.MapTo(v, t): the value of type t of injector c is written
Map(vs, c, t, by) == [vs EXCEPT ![c].values[t] = by]

SetParent(vs, c, p) == [vs EXCEPT ![c].parent = p]

\* c.Get(t)
RECURSIVE Get(_, _, _)
Get(vs, c, t) ==
    IF vs[c].values[t] # NoValue THEN vs[c].values[t]
    ELSE IF vs[c].parent # NoParent THEN Get(vs, vs[c].parent, t)
    ELSE NoValue

\* the writes of a sequence of Map calls <<type, ...>> on injector c
RECURSIVE MapAll(_, _, _, _)
MapAll(vs, c, ts, by) ==
    IF ts = <<>> THEN vs ELSE MapAll(Map(vs, c, Head(ts), by), c, Tail(ts), by)

\* New: the server's injector with the logger and the two return handlers
serverInjector ==
    MapAll(0 :> injectNew, 0, <<"Logger", "RouterReturnHandler", "MiddlewareReturnHandler">>, 0)

\* NewContext: a new injector with the context and the response writer
NewContext(vs, r) == MapAll(vs @@ (r :> injectNew), r, <<"Context", "ResponseWriter">>, r)

\* yawf.CreateContext for request r
CreateContext(r) ==
    /\ rpc[r] = "idle"
    /\ values' = MapAll(SetParent(NewContext(values, r), r, 0), r,
                        <<"Request", "Headers", "QueryParams", "FormParams">>, r)
    /\ rpc' = [rpc EXCEPT ![r] = "created"]
    /\ UNCHANGED <<ctxVars, regVars, resolved, url, activeCount, countHist, isStopping, cClose,
                   closed, sent, spc, runpc, atStop>>

\* router.Handle and route.Handle for request r, up to the run of the chain:
\* with a route matched the PathParams, the route's context and the route are
\* mapped, without one the context of the not-found chain
HandleMaps(r, matched) ==
    /\ rpc[r] = "created"
    /\ values' = IF matched THEN MapAll(values, r, <<"PathParams", "Context", "Route">>, r)
                 ELSE Map(values, r, "Context", r)
    /\ rpc' = [rpc EXCEPT ![r] = "routed"]
    /\ UNCHANGED <<ctxVars, regVars, resolved, url, activeCount, countHist, isStopping, cClose,
                   closed, sent, spc, runpc, atStop>>

\* Invoke of a handler of request r resolves an argument of type t
Resolve(r, t) ==
    /\ rpc[r] \in {"created", "routed"}
    /\ Len(resolved) < MaxGets
    /\ resolved' = Append(resolved, [req |-> r, type |-> t, by |-> Get(values, r, t)])
    /\ UNCHANGED <<ctxVars, srvVars, regVars, values, url>>

\* the dispatch of request r returns
ServeDone(r) ==
    /\ rpc[r] \in {"created", "routed"}
    /\ rpc' = [rpc EXCEPT ![r] = "done"]
    /\ UNCHANGED <<ctxVars, regVars, values, resolved, url, activeCount, countHist, isStopping,
                   cClose, closed, sent, spc, runpc, atStop>>

\* the server's container as New built it, no value resolved, no URL asked for
InitAux ==
    /\ values = serverInjector /\ resolved = <<>>
    /\ url = NoURL

(***************************************************************************)
(* The request under dispatch: the global chain, one route table, and a    *)
(* request that matches a route or none.                                   *)
(***************************************************************************)
MaxChain == 2       \* handlers of a route, and of a custom not-found chain

\* a server set up and serving: no registration is in progress
InitRegistered ==
    /\ groups = <<>> /\ gcalls = <<>> /\ greturns = <<>> /\ regs = <<>>
    /\ phase = "serving"
    /\ InitAux

InitServer ==
    /\ activeCount = 0 /\ countHist = {0} /\ isStopping = FALSE /\ cClose = 0
    /\ closed = FALSE /\ sent = 0 /\ rpc = [r \in 1..MaxReqs |-> "idle"]
    /\ spc = "idle" /\ runpc = "serving" /\ atStop = {}

InitRequest ==
    /\ index = -1 /\ rw = <<>> /\ rctx = NoRouteContext /\ params = {}
    /\ stack = <<>> /\ invoked = <<>> /\ stops = {} /\ returns = <<>> /\ calls = 0

\* the global chain, and the route table of the request under dispatch: one
\* GET route of MaxChain handlers
Init ==
    /\ \E n \in 0..MaxGlobal : handlers = [j \in 1..n |-> HandlerName("use", j)]
    /\ routes = <<newRoute("GET", <<"/", "a">>, [j \in 1..MaxChain |-> HandlerName("route", j)])>>
    /\ notFounds \in {<<HttpNotFound>>, [j \in 1..MaxChain |-> HandlerName("notfound", j)]}
    /\ req \in {[method |-> "GET", path |-> <<"/", "a">>],
                 [method |-> "GET", path |-> <<"/", "b">>]}
    /\ rets = RetShapes
    /\ InitRequest
    /\ InitServer
    /\ InitRegistered

Next ==
    \/ ServeHTTP /\ UNCHANGED <<srvVars, regVars, auxVars>>
    \/ contextRun /\ UNCHANGED <<srvVars, regVars, auxVars>>
    \/ contextNext /\ UNCHANGED <<srvVars, regVars, auxVars>>
    \/ contextStop /\ UNCHANGED <<srvVars, regVars, auxVars>>
    \/ Write /\ UNCHANGED <<srvVars, regVars, auxVars>>
    \/ (\E vals \in rets : contextReturn(vals)) /\ UNCHANGED <<srvVars, regVars, auxVars>>
    \/ Handle /\ UNCHANGED <<srvVars, regVars, auxVars>>
    \/ HandleReturn /\ UNCHANGED <<srvVars, regVars, auxVars>>
    \/ routeContextRun /\ UNCHANGED <<srvVars, regVars, auxVars>>
    \/ routeContextNext /\ UNCHANGED <<srvVars, regVars, auxVars>>
    \/ (\E vals \in rets : routeContextReturn(vals)) /\ UNCHANGED <<srvVars, regVars, auxVars>>
    \/ httpNotFound /\ UNCHANGED <<srvVars, regVars, auxVars>>

Spec == Init /\ [][Next]_vars

(***************************************************************************)
(* The return-value protocols over every kind of returned value: a chain   *)
(* of one global handler and one route of one handler.                     *)
(***************************************************************************)
InitReturn ==
    /\ handlers = <<HandlerName("use", 1)>>
    /\ routes = <<newRoute("GET", <<"/", "a">>, <<HandlerName("route", 1)>>)>>
    /\ notFounds = <<HttpNotFound>>
    /\ req \in {[method |-> "GET", path |-> <<"/", "a">>],
                 [method |-> "GET", path |-> <<"/", "b">>]}
    /\ rets = RetVals
    /\ InitRequest
    /\ InitServer
    /\ InitRegistered

SpecReturn == InitReturn /\ [][Next]_vars

(***************************************************************************)
(* The router's dispatch over route tables and requests: a request with no *)
(* global middleware, up to the invocation of the first handler of the     *)
(* chain that router.Handle chose.                                         *)
(***************************************************************************)
MaxRoutes == 3      \* routes registered

RouteMethods == {"GET", "HEAD", "*"}
Patterns == {<<"/", "a">>, <<"/", ":", "x">>, <<"/", "*", "*">>}
ReqMethods == {"GET", "HEAD", "POST"}
Paths == {<<"/", "a">>, <<"/", "a", "/">>, <<"/", "b", "/", "a">>, <<"b", "/", "a">>}

RouteTables ==
    UNION {[1..n -> RouteMethods \X Patterns] : n \in 0..MaxRoutes}

InitRoute ==
    /\ handlers = <<>>
    /\ \E tbl \in RouteTables :
          routes = [j \in 1..Len(tbl) |->
                       newRoute(tbl[j][1], tbl[j][2], <<HandlerName("route", j)>>)]
    /\ notFounds = <<HttpNotFound>>
    /\ req \in [method : ReqMethods, path : Paths]
    /\ rets = RetShapes
    /\ InitRequest
    /\ InitServer
    /\ InitRegistered

NextRoute ==
    \/ ServeHTTP /\ UNCHANGED <<srvVars, regVars, auxVars>>
    \/ contextRun /\ UNCHANGED <<srvVars, regVars, auxVars>>
    \/ Handle /\ UNCHANGED <<srvVars, regVars, auxVars>>
    \/ routeContextRun /\ UNCHANGED <<srvVars, regVars, auxVars>>

SpecRoute == InitRoute /\ [][NextRoute]_vars

(***************************************************************************)
(* The server under shutdown: MaxReqs requests, one call of Stop(), Run(). *)
(***************************************************************************)
InitServing ==
    /\ handlers = <<>> /\ routes = <<>> /\ notFounds = <<HttpNotFound>>
    /\ req = [method |-> "GET", path |-> <<"/">>]
    /\ rets = RetShapes
    /\ InitRequest
    /\ InitServer
    /\ InitRegistered

NextServer ==
    \/ (\E r \in 1..MaxReqs : Accept(r)) /\ UNCHANGED <<ctxVars, regVars, auxVars>>
    \/ (\E r \in 1..MaxReqs : ServeHTTPEnd(r)) /\ UNCHANGED <<ctxVars, regVars, auxVars>>
    \/ StopMark /\ UNCHANGED <<ctxVars, regVars, auxVars>>
    \/ StopClose /\ UNCHANGED <<ctxVars, regVars, auxVars>>
    \/ StopSignal /\ UNCHANGED <<ctxVars, regVars, auxVars>>
    \/ RunReceive /\ UNCHANGED <<ctxVars, regVars, auxVars>>

SpecServer == InitServing /\ [][NextServer]_vars

(***************************************************************************)
(* Registration, then the dispatch of one request by handlers that return  *)
(* nothing.                                                                *)
(***************************************************************************)
Prefixes == {<<"/", "g">>, <<"/", "h">>}
RegPaths == {<<"/", "a">>} \cup {p \o <<"/", "a">> : p \in Prefixes}
                \cup {p \o q \o <<"/", "a">> : p \in Prefixes, q \in Prefixes}

InitReg ==
    /\ handlers = <<>> /\ routes = <<>> /\ notFounds = <<HttpNotFound>>
    /\ req = [method |-> "GET", path |-> <<"/">>]
    /\ rets = {<<>>}
    /\ InitRequest
    /\ InitServer
    /\ groups = <<>> /\ gcalls = <<>> /\ greturns = <<>> /\ regs = <<>>
    /\ phase = "config"
    /\ InitAux

regFrame == <<req, rets, index, rw, rctx, params, stack, invoked, stops, returns, calls>>

\* the dispatch of the request Run was given, by handlers that return nothing;
\* the Invoke of a handler that is not a func is left to InvokePanics
serveRequest ==
    \/ ServeHTTP /\ UNCHANGED <<srvVars, regVars, auxVars>>
    \/ contextRun /\ UNCHANGED <<srvVars, regVars, auxVars>>
    \/ (\E vals \in rets : contextReturn(vals)) /\ UNCHANGED <<srvVars, regVars, auxVars>>
    \/ Handle /\ UNCHANGED <<srvVars, regVars, auxVars>>
    \/ HandleReturn /\ UNCHANGED <<srvVars, regVars, auxVars>>
    \/ /\ stack # <<>> /\ Top.f = "rrun"
       /\ rctx.index < Len(rctx.handlers) => IsFunc(rctx.handlers[rctx.index + 1])
       /\ routeContextRun /\ UNCHANGED <<srvVars, regVars, auxVars>>
    \/ (\E vals \in rets : routeContextReturn(vals)) /\ UNCHANGED <<srvVars, regVars, auxVars>>
    \/ httpNotFound /\ UNCHANGED <<srvVars, regVars, auxVars>>

\* the configuration registers routes, inside and outside groups
NextReg ==
    \/ (\E hs \in {<<HandlerName("route", Len(routes) + 1)>>, <<NonCallable>>} :
           addRoute("GET", <<"/", "a">>, hs))
          /\ UNCHANGED <<regFrame, srvVars, auxVars>>
    \/ (\E p \in Prefixes :
           \E hs \in {<<>>, <<HandlerName("shared", Len(gcalls) + Len(greturns) + 1)>>} :
              Group(p, hs))
          /\ UNCHANGED <<regFrame, srvVars, auxVars>>
    \/ GroupReturn /\ UNCHANGED <<regFrame, srvVars, auxVars>>
    \/ (\E p \in RegPaths : Run([method |-> "GET", path |-> p]))
          /\ UNCHANGED <<rets, index, rw, rctx, params, stack, invoked, stops, returns, calls, srvVars,
                         auxVars>>
    \/ phase = "serving" /\ serveRequest

SpecReg == InitReg /\ [][NextReg]_vars

(***************************************************************************)
(* Validation: the configuration calls Use, NotFound and the registration  *)
(* of routes with handlers that are funcs and one that is not, then a      *)
(* request is dispatched.                                                  *)
(***************************************************************************)
NextValidate ==
    \/ (\E h \in {HandlerName("use", Len(handlers) + 1), NonCallable} : Use(h))
          /\ UNCHANGED <<regFrame, srvVars, auxVars>>
    \/ (\E hs \in {<<HandlerName("route", Len(routes) + 1)>>, <<NonCallable>>} :
           addRoute("GET", <<"/", "a">>, hs))
          /\ UNCHANGED <<regFrame, srvVars, auxVars>>
    \/ (\E hs \in {<<HandlerName("notfound", 1)>>, <<NonCallable>>} : NotFound(hs))
          /\ UNCHANGED <<regFrame, srvVars, auxVars>>
    \/ (\E p \in {<<"/", "a">>, <<"/", "b">>} : Run([method |-> "GET", path |-> p]))
          /\ UNCHANGED <<rets, index, rw, rctx, params, stack, invoked, stops, returns, calls, srvVars,
                         auxVars>>
    \/ phase = "serving" /\ serveRequest
    \/ InvokePanics
          /\ UNCHANGED <<rets, index, rw, rctx, params, stack, invoked, stops, returns, calls, srvVars,
                         auxVars>>

SpecValidate == InitReg /\ [][NextValidate]_vars

(***************************************************************************)
(* URL rendering: one route, named by SetName, and one call of URLFor with *)
(* parameters drawn from strings, integers, nil and a value of another     *)
(* type.                                                                   *)
(***************************************************************************)
URLPatterns == {<<"/", "u", "/", ":", "i", "d">>, <<"/", ":", "a", "/", ":", "b">>,
                <<"/", "f", "/", "*", "*">>, <<"/", "a">>}
URLParams == {StrV(<<"4", "2">>), IntV(7), StrV(<<"a", "/", "b">>), StrV(<<>>), NilV, BoolV(TRUE)}
ParamLists == UNION {[1..n -> URLParams] : n \in 0..MaxArgs}

InitURL ==
    /\ handlers = <<>> /\ notFounds = <<HttpNotFound>>
    /\ \E p \in URLPatterns : routes = <<newRoute("GET", p, <<>>)>>
    /\ req = [method |-> "GET", path |-> <<"/">>]
    /\ rets = {<<>>}
    /\ InitRequest
    /\ InitServer
    /\ groups = <<>> /\ gcalls = <<>> /\ greturns = <<>> /\ regs = <<>>
    /\ phase = "config"
    /\ values = serverInjector /\ resolved = <<>>
    /\ \E name \in {"user", "home"}, ps \in ParamLists :
           url = [NoURL EXCEPT !.name = name, !.params = ps]

NextURL ==
    \/ SetName(1, "user")
    \/ URLFor

SpecURL == InitURL /\ [][NextURL]_vars

(***************************************************************************)
(* Request scope: MaxReqs requests served concurrently or one after the    *)
(* other, each with its own context, their handlers resolving values.      *)
(***************************************************************************)
ResolvedTypes == {"Request", "PathParams", "Context", "Route", "Logger"}

InitScope ==
    /\ handlers = <<>> /\ routes = <<>> /\ notFounds = <<HttpNotFound>>
    /\ req = [method |-> "GET", path |-> <<"/">>]
    /\ rets = {<<>>}
    /\ InitRequest
    /\ InitServer
    /\ InitRegistered

NextScope ==
    \/ \E r \in 1..MaxReqs : CreateContext(r)
    \/ \E r \in 1..MaxReqs, matched \in BOOLEAN : HandleMaps(r, matched)
    \/ \E r \in 1..MaxReqs, t \in ResolvedTypes : Resolve(r, t)
    \/ \E r \in 1..MaxReqs : ServeDone(r)

SpecScope == InitScope /\ [][NextScope]_vars

(***************************************************************************)
(* The claims.                                                             *)
(***************************************************************************)
Invocations == 1..Len(invoked)
Returns == 1..Len(returns)

\* C1: once a handler at index i of a context's chain has called Stop() on the
\* Context injected into it, no handler at a greater index of that context's
\* chain (the terminal action included) is invoked for the rest of the request.
C1_StopHaltsChain ==
    \A s \in stops : \A m \in Invocations :
        m > s.k => ~(invoked[m].ctx = s.ctx /\ invoked[m].i > s.i)

\* C2, as claimed: no handler of any context is invoked in a state where the
\* response tracker already reports written.
C2_NoInvocationOnceWritten ==
    \A m \in Invocations : ~invoked[m].w

\* C2, amended: an activation of a run loop invokes nothing further once a
\* handler it invoked has returned with the response written; only the first
\* invocation of an activation (the one a call of Next() or the dispatch
\* starts) can happen with the response already written.
C2_WrittenEndsLoop ==
    /\ \A m \in Invocations : ~invoked[m].first => ~invoked[m].w
    /\ \A n \in Returns : returns[n].at1 > 0 => ~returns[n].cont

\* C2, the case: a global handler wrote to the response and returned nothing
\* while the context was not stopped, and its run loop returned
C2_Witness ==
    \E n \in Returns :
        /\ returns[n].ctx = "top" /\ returns[n].vals = <<>> /\ returns[n].at1 > 0
        /\ ~IsStopped(returns[n].idx1, handlers)
        /\ returns[n].i < Len(handlers)
        /\ ~returns[n].cont

\* C3: when Stop() is called while requests are in flight, no closure signal is
\* sent on cClose until the ServeHTTP of each of them has finished its dispatch.
C3_NoSignalWhileInFlight ==
    sent > 0 => \A r \in atStop : rpc[r] # "dispatch"

\* The ranks of the routes for the request, and the route a scan of the whole
\* table selects: the earliest route among those of the greatest rank.
RankOf(j) == Match(routes[j], req.method, req.path).match
Ranks == [j \in DOMAIN routes |-> RankOf(j)]
BestRank(rk) == IF rk = <<>> THEN NoMatch
                ELSE CHOOSE b \in {rk[j] : j \in DOMAIN rk} : \A j \in DOMAIN rk : rk[j] <= b
Winner == LET rk == Ranks
              b == BestRank(rk)
          IN  IF b = NoMatch THEN 0
              ELSE CHOOSE j \in DOMAIN rk : rk[j] = b /\ \A i \in 1..(j - 1) : rk[i] # b

\* C4: ExactMatch > OverloadMatch > StarMatch > NoMatch, and router.Handle
\* dispatches to the earliest-registered route among those whose rank for the
\* request is the greatest over all the routes, as a scan of the whole table
\* would: its handlers are the chain run and its parameters the ones mapped.
C4_BestRankEarliest ==
    /\ ExactMatch > OverloadMatch /\ OverloadMatch > StarMatch /\ StarMatch > NoMatch
    /\ rctx.made =>
          LET w == Winner
          IN  /\ rctx.route = w
              /\ w # 0 =>
                    /\ rctx.handlers = routes[w].handlers
                    /\ params = Match(routes[w], req.method, req.path).vals

\* C4, the case: two routes tie at the best rank, short of ExactMatch, after a
\* route of a lower rank; the earlier of the two was dispatched
C4_Witness ==
    /\ rctx.made /\ rctx.route # 0
    /\ \E i, j, k \in DOMAIN routes :
          /\ i < j /\ j < k /\ rctx.route = j
          /\ RankOf(i) = StarMatch /\ RankOf(j) = OverloadMatch /\ RankOf(k) = OverloadMatch

\* Every way the whole of s, from pos on, matches re from element k on: the
\* set of the captures of the named groups.
RECURSIVE AllMatches(_, _, _, _)
AllMatches(re, k, s, pos) ==
    IF k > Len(re) THEN (IF pos = Len(s) THEN {<<>>} ELSE {})
    ELSE LET e == re[k]
         IN  CASE e.t = "lit" ->
                    IF pos < Len(s) /\ s[pos + 1] = e.c
                    THEN AllMatches(re, k + 1, s, pos + 1) ELSE {}
               [] e.t = "optslash" ->
                    AllMatches(re, k + 1, s, pos) \cup
                    (IF pos < Len(s) /\ s[pos + 1] = "/"
                     THEN AllMatches(re, k + 1, s, pos + 1) ELSE {})
               [] OTHER ->
                    UNION {{<<<<e.name, SubSeq(s, pos + 1, pos + n)>>>> \o c :
                              c \in AllMatches(re, k + 1, s, pos + n)} :
                           n \in {n \in (IF e.t = "seg" THEN 1 ELSE 0)..(Len(s) - pos) :
                                    \A l \in (pos + 1)..(pos + n) : InClass(e, s[l])}}

FullMatches(j) == AllMatches(routes[j].regex, 1, req.path, 0)

\* the request's method equals the route's and its path fully matches the pattern
Exactly(j) == req.method = routes[j].method /\ FullMatches(j) # {}

\* the dispatch went to route j: its chain is the one run, every handler invoked
\* in the route context is the chain's, and the PathParams are the captures of
\* a full match of the path, each :name parameter bound to one path segment
DispatchedTo(j) ==
    /\ rctx.route = j
    /\ rctx.handlers = routes[j].handlers
    /\ \A m \in Invocations :
          invoked[m].ctx = "route" => invoked[m].h = routes[j].handlers[invoked[m].i + 1]
    /\ \E c \in FullMatches(j) : params = {<<c[l][1], c[l][2]>> : l \in DOMAIN c}
    /\ \A l \in DOMAIN routes[j].regex : routes[j].regex[l].t = "seg" =>
          \E q \in params : q[1] = routes[j].regex[l].name /\ q[2] # <<>>
                              /\ \A x \in DOMAIN q[2] : q[2][x] # "/"

\* C5, as claimed: for every registered route whose method equals the request's
\* and whose pattern fully matches the path, the dispatch invokes that route's
\* chain with its parameters bound.
C5_EveryExactRouteDispatched ==
    rctx.made => \A j \in DOMAIN routes : Exactly(j) => DispatchedTo(j)

\* C5, amended: the same, for the earliest-registered such route.
C5_EarliestExactRouteDispatched ==
    rctx.made =>
        \A j \in DOMAIN routes :
            (Exactly(j) /\ \A i \in 1..(j - 1) : ~Exactly(i)) => DispatchedTo(j)

\* C5, the case: the first handler of a route with a parameter runs; the route
\* comes after a route that matches by the wildcard method only, and before
\* another route that matches exactly as well
C5_Witness ==
    /\ rctx.made /\ params # {}
    /\ \E m \in Invocations : invoked[m].ctx = "route"
    /\ \E i, j, k \in DOMAIN routes :
          /\ i < j /\ j < k /\ rctx.route = j
          /\ RankOf(i) = StarMatch /\ Exactly(j) /\ Exactly(k)

\* some route matches the request
SomeRouteMatches ==
    \E j \in DOMAIN routes :
        MatchMethod(routes[j], req.method) # NoMatch /\ FullMatches(j) # {}

Range(s) == {s[j] : j \in DOMAIN s}

\* C6: router.Handle runs the not-found chain if and only if every route yields
\* NoMatch for the request; then no route's handler is invoked, and when some
\* route matches no not-found handler is invoked.
C6_NotFoundIffNoMatch ==
    rctx.made =>
        /\ rctx.route = 0 <=> ~SomeRouteMatches
        /\ rctx.route = 0 => rctx.handlers = notFounds
        /\ rctx.route # 0 => rctx.handlers = routes[rctx.route].handlers
        /\ \A m \in Invocations : invoked[m].ctx = "route" =>
              IF SomeRouteMatches
              THEN invoked[m].h \notin Range(notFounds)
              ELSE /\ invoked[m].h = notFounds[invoked[m].i + 1]
                   /\ \A j \in DOMAIN routes : invoked[m].h \notin Range(routes[j].handlers)

\* C6, the case: one route has the request's path and another its method, none
\* has both, and the not-found handler runs
C6_Witness ==
    /\ rctx.made /\ rctx.route = 0
    /\ \E m \in Invocations : invoked[m].h = HttpNotFound
    /\ \E i, j \in DOMAIN routes :
          /\ FullMatches(i) # {} /\ MatchMethod(routes[i], req.method) = NoMatch
          /\ FullMatches(j) = {} /\ MatchMethod(routes[j], req.method) = ExactMatch

\* C7: under both protocols a handler that returns no values, or a single
\* true, causes no write and the chain continues: with the response unwritten,
\* the context not stopped and a handler left in the chain, the run loop goes
\* on to invoke it.
C7_PassthroughContinues ==
    \A n \in Returns :
        LET r == returns[n]
        IN  (/\ r.vals \in {<<>>, <<BoolV(TRUE)>>}
             /\ r.at = 0
             /\ ~IsStopped(r.idx1, handlers)
             /\ r.ctx = "route" => r.i + 1 < Len(rctx.handlers))
            => (r.at1 = 0 /\ r.cont)

\* C8: a handler that returns a single false causes an empty body to be
\* written and stops the calling context only: returned by a route handler it
\* ends the route's chain and leaves the top-level context's cursor as it was;
\* returned by a global handler it stops the top-level context.
C8_FalseStopsCallingContextOnly ==
    \A n \in Returns :
        LET r == returns[n]
        IN  isFalse(r.vals) =>
              /\ r.at1 = r.at + 1 /\ rw[r.at1] = WriteCall(<<>>)
              /\ ~r.cont
              /\ r.ctx = "route" => r.idx1 = r.idx0
              /\ r.ctx = "top" => IsStopped(r.idx1, handlers)

\* C9: when the values a global handler returns produce a write, the
\* top-level context is stopped: its run loop returns and neither a later
\* global handler nor the router action is invoked afterwards; when the values
\* a route handler returns produce a body write (they are not a single false),
\* the route protocol calls Stop on no context: the top-level cursor is as it
\* was.
C9_StopAsymmetry ==
    \A n \in Returns :
        LET r == returns[n]
        IN  /\ (r.ctx = "top" /\ r.at1 > r.at) =>
                  /\ IsStopped(r.idx1, handlers) /\ IsStopped(index, handlers)
                  /\ ~r.cont
                  /\ \A m \in Invocations : m > r.k => invoked[m].ctx # "top"
            /\ (r.ctx = "route" /\ r.at1 > r.at /\ ~isFalse(r.vals)) => r.idx1 = r.idx0

\* C9, the case: the first of two global handlers returns a body and the
\* request ends with one invocation; in another request a route handler
\* returns a body with the top-level context not stopped
C9_Witness ==
    \/ /\ stack = <<>> /\ Len(handlers) = 2 /\ Len(invoked) = 1
       /\ \E n \in Returns : returns[n].ctx = "top" /\ returns[n].vals = <<StrV(Body)>>
    \/ /\ ~IsStopped(index, handlers)
       /\ \E n \in Returns : returns[n].ctx = "route" /\ returns[n].vals = <<StrV(Body)>>

\* the body a returned value stands for: a pointer's target; bytes and text as
\* they are, any other value as its JSON
ExpectedBody(v) ==
    LET u == [v EXCEPT !.ptr = FALSE]
    IN  CASE u.k = "bytes" -> u.s
          [] u.k = "string" -> u.s
          [] OTHER -> Marshal(u)

\* C10: under both protocols, values whose first of two or more is an integer
\* s have s written as the status and then the second value as the body; a
\* single value that is not a boolean is written as the body with no status
\* written, which leaves the status at 200.
C10_StatusThenBody ==
    \A n \in Returns :
        LET r == returns[n]
            vals == r.vals
        IN  /\ (Len(vals) >= 2 /\ Kind(vals[1]) = "int") =>
                  /\ r.at1 = r.at + 2
                  /\ rw[r.at + 1] = WriteHeaderCall(vals[1].n)
                  /\ rw[r.at + 2] = WriteCall(ExpectedBody(vals[2]))
                  /\ r.at = 0 => StatusOf(rw) = vals[1].n
            /\ (Len(vals) = 1 /\ Kind(vals[1]) # "bool") =>
                  /\ r.at1 = r.at + 1
                  /\ rw[r.at + 1] = WriteCall(ExpectedBody(vals[1]))
                  /\ r.at = 0 => StatusOf(rw) = 200

\* C10, the case: a route handler returned (200, {id: "7"}) and the response is
\* status 200 with the body {"id":"7"}
C10_Witness ==
    /\ \E n \in Returns :
          returns[n].ctx = "route" /\ returns[n].vals = <<IntV(200), ObjV(<<55>>)>>
    /\ StatusOf(rw) = 200
    /\ BodyOf(rw) = BytesOf(<<"{", "\"", "i", "d", "\"", ":", "\"", "7", "\"", "}">>)

\* the prefixes, and the shared handlers, of the calls of Group in progress,
\* outermost first
RECURSIVE ActivePrefix(_)
ActivePrefix(cs) == IF cs = <<>> THEN <<>> ELSE cs[1].pattern \o ActivePrefix(Tail(cs))
RECURSIVE ActiveShared(_)
ActiveShared(cs) == IF cs = <<>> THEN <<>> ELSE cs[1].handlers \o ActiveShared(Tail(cs))

EffectivePattern(j) == ActivePrefix(regs[j].active) \o regs[j].pattern
EffectiveHandlers(j) == ActiveShared(regs[j].active) \o regs[j].handlers

\* C11: a route registered while groups are active has as its pattern the
\* groups' prefixes, outermost first, followed by the given pattern, and as its
\* handlers the groups' shared handlers, outermost first, followed by its own;
\* it is dispatched only for a path that matches the prefixed pattern, and its
\* handlers are invoked in that order, the shared ones first.
C11_GroupPrefixAndHandlers ==
    \A j \in DOMAIN routes :
        /\ routes[j].pattern = EffectivePattern(j)
        /\ routes[j].handlers = EffectiveHandlers(j)
        /\ (rctx.made /\ rctx.route = j) =>
              /\ AllMatches(compile(EffectivePattern(j), 1, 0), 1, req.path, 0) # {}
              /\ \A m \in Invocations : invoked[m].ctx = "route" =>
                    /\ invoked[m].h = EffectiveHandlers(j)[invoked[m].i + 1]
                    /\ \A n \in 1..(m - 1) : invoked[n].ctx = "route" =>
                          invoked[n].i < invoked[m].i

\* C11, the case: a route registered inside two nested groups of different
\* prefixes, each with a shared handler, was dispatched and its three handlers
\* were invoked
C11_Witness ==
    \E j \in DOMAIN routes :
        /\ Len(regs[j].active) = 2
        /\ regs[j].active[1].pattern # regs[j].active[2].pattern
        /\ regs[j].active[1].handlers # <<>> /\ regs[j].active[2].handlers # <<>>
        /\ rctx.made /\ rctx.route = j
        /\ Cardinality({m \in Invocations : invoked[m].ctx = "route"}) = 3

\* C14: every handler held in the global list, in a route's list and in the
\* not-found list is a callable: a registration of a non-callable fails
\* fatally and leaves the list as it was.
C14_AllHandlersCallable ==
    /\ \A j \in DOMAIN handlers : IsFunc(handlers[j])
    /\ \A j \in DOMAIN routes : \A k \in DOMAIN routes[j].handlers : IsFunc(routes[j].handlers[k])
    /\ \A j \in DOMAIN notFounds : IsFunc(notFounds[j])

\* C19: when Group returns, the stack of groups is, element for element, what
\* it was before the call, at every depth of nesting; the stack holds the
\* groups of the calls in progress and no other, so a route registered after
\* Group returned has none of that group's prefix or shared handlers.
C19_GroupRestoresStack ==
    /\ \A n \in DOMAIN greturns : greturns[n].after = greturns[n].call.before
    /\ groups = [k \in DOMAIN gcalls |-> group(gcalls[k].pattern, gcalls[k].handlers)]
    /\ \A j \in DOMAIN routes :
          (regs[j].returned > 0 /\ regs[j].active = <<>>) =>
              routes[j].pattern = regs[j].pattern /\ routes[j].handlers = regs[j].handlers

\* C19, the case: a group nested in a group returned, then the outer one, and
\* a route was registered after both, with its own pattern and handlers
C19_Witness ==
    /\ \E n \in DOMAIN greturns : greturns[n].depth = 2 /\ greturns[n].call.before # <<>>
    /\ \E j \in DOMAIN routes :
          regs[j].returned = 2 /\ regs[j].active = <<>> /\ routes[j].pattern = <<"/", "a">>

\* the requests in flight: their ServeHTTP has started and not returned
InFlight == {r \in DOMAIN rpc : rpc[r] = "dispatch"}

\* C12: Stop() signals closure at once when no request is in flight at the
\* call, whatever requests were served before; called with requests in flight,
\* closure is signalled when the last of them completes.  So once Stop() has
\* returned and no request is in flight, the closure signal has been sent.
C12_StopSignalsWhenIdle ==
    (spc = "done" /\ InFlight = {}) => sent > 0

\* C16: the active-request counter equals the number of requests in flight,
\* and is never negative.
C16_CountIsRequestsInFlight ==
    activeCount = Cardinality(InFlight) /\ activeCount >= 0

\* the handlers invoked in context ctx, in the order of their invocation
RECURSIVE InvokedIn(_, _)
InvokedIn(ctx, m) ==
    IF m = 0 THEN <<>>
    ELSE InvokedIn(ctx, m - 1) \o (IF invoked[m].ctx = ctx THEN <<invoked[m].h>> ELSE <<>>)

\* the request is over: ServeHTTP's call of Next() returned
Finished == stack = <<>> /\ index # -1

\* C17: Next() is optional.  When no handler called Stop() and nothing was
\* written to the response, by a handler or for a handler's returned values,
\* every handler of the global chain and then the router action were invoked,
\* in chain order, and so was every handler of the route's (or not-found)
\* chain, whichever handlers called Next() in their body.
C17_ChainCompletes ==
    (Finished /\ stops = {} /\ rw = <<>>) =>
        /\ InvokedIn("top", Len(invoked)) = handlers \o <<HandlerName("Handle", 0)>>
        /\ rctx.made /\ InvokedIn("route", Len(invoked)) = rctx.handlers

\* C18: the cursor of the top-level context lies in [-1, len(handlers)+1].
C18_CursorInRange ==
    -1 <= index /\ index <= Len(handlers) + 1

\* the returns whose values made the protocol write to the response
WritingReturns == {n \in Returns : returns[n].at1 > returns[n].at}

\* C20: over the whole request the return-value protocols write to the
\* response at most once: once the values a handler returned have produced a
\* write, the values of no handler that returns later produce another.
C20_ProtocolsWriteAtMostOnce ==
    Cardinality(WritingReturns) <= 1


\* the names of the parameter tokens of a pattern, in order
RECURSIVE TokenNames(_, _)
TokenNames(p, j) ==
    IF j > Len(p) THEN <<>>
    ELSE IF p[j] = ":" /\ NameRun(p, j + 1) > 0
         THEN <<SubSeq(p, j + 1, j + NameRun(p, j + 1))>>
                  \o TokenNames(p, j + 1 + NameRun(p, j + 1))
    ELSE TokenNames(p, j + 1)

Rendered == url.called /\ url.panic = ""
URLArgs == argsOf(url.params, 1).args
Substituted == 1..(IF Len(URLArgs) < Len(TokenNames(routes[1].pattern, 1))
                   THEN Len(URLArgs) ELSE Len(TokenNames(routes[1].pattern, 1)))

\* every substituted argument comes back as the value of its parameter
BindsBack ==
    LET m == Match(routes[1], routes[1].method, url.url)
    IN  /\ m.match = ExactMatch
        /\ \A i \in Substituted : <<TokenNames(routes[1].pattern, 1)[i], URLArgs[i]>> \in m.vals

\* an argument that is one path segment: not empty, and without "/", "#", "?"
IsSegment(a) == a # <<>> /\ \A j \in DOMAIN a : a[j] \notin {"/", "#", "?"}

\* C15 as stated: URLFor renders the pattern with the i-th token replaced by
\* the i-th argument, and matching the rendered URL against the same route
\* binds each named parameter back to the argument substituted for it.
C15_RoundTripAnyArgument ==
    Rendered => BindsBack

\* C15, amended: the rendering replaces the i-th token by the i-th argument
\* and leaves the tokens beyond the arguments and the pattern without
\* arguments as they are; the rendered URL binds each parameter back to its
\* argument when every substituted argument is one path segment.
C15_RenderAndRoundTrip ==
    Rendered =>
        /\ (\A i \in Substituted : IsSegment(URLArgs[i])) => BindsBack
        /\ URLArgs = <<>> => url.url = routes[1].pattern
        /\ (routes[1].pattern = <<"/", "u", "/", ":", "i", "d">> /\ URLArgs = <<<<"4", "2">>>>)
              => url.url = <<"/", "u", "/", "4", "2">>
        /\ (routes[1].pattern = <<"/", ":", "a", "/", ":", "b">> /\ URLArgs = <<<<"4", "2">>>>)
              => url.url = <<"/", "4", "2", "/", ":", "b">>
        /\ (routes[1].pattern = <<"/", ":", "a", "/", ":", "b">>
                /\ URLArgs = <<<<"4", "2">>, <<"7">>>>)
              => url.url = <<"/", "4", "2", "/", "7">>

C15_Witness ==
    /\ Rendered
    /\ routes[1].pattern = <<"/", ":", "a", "/", ":", "b">>
    /\ URLArgs = <<<<"4", "2">>, <<"7">>>>
    /\ BindsBack

\* C13: no handler of a request resolves a value written during another
\* request (it resolves its own request's values, those of the server's
\* set-up, or none), and serving requests leaves the server's container as
\* New built it.
C13_RequestScoped ==
    /\ \A j \in DOMAIN resolved : resolved[j].by \in {resolved[j].req, 0, NoValue}
    /\ \A j \in DOMAIN resolved :
           resolved[j].type \in {"Request", "Context"} => resolved[j].by = resolved[j].req
    /\ values[0] = serverInjector[0]

\* two requests in flight together, both routed, each resolved its own PathParams
C13_Witness ==
    /\ rpc[1] = "routed" /\ rpc[2] = "routed"
    /\ values[1].values["PathParams"] = 1 /\ values[2].values["PathParams"] = 2
    /\ \E j, l \in DOMAIN resolved :
           /\ resolved[j] = [req |-> 1, type |-> "PathParams", by |-> 1]
           /\ resolved[l] = [req |-> 2, type |-> "PathParams", by |-> 2]

\* the run loop of the top-level context is at its head and goes on
AtHandlerCall == stack # <<>> /\ Top.f = "run" /\ Top.pc = "loop" /\ index <= Len(handlers)

\* C21: in each execution context the handlers are invoked in strictly
\* increasing index order, so each at most once per request, whatever calls of
\* Next() and Stop() the handlers make; and context.handler is reached only
\* with an index in [0, len(handlers)], never with one that makes it panic.
C21_InvokedOnceInOrder ==
    /\ \A m \in Invocations : \A n \in Invocations :
           (m < n /\ invoked[m].ctx = invoked[n].ctx) => invoked[m].i < invoked[n].i
    /\ \A m \in Invocations : invoked[m].ctx = "top" =>
           /\ contextHandler(handlers, invoked[m].i) \notin {InvalidIndex, IndexOutOfRange}
           /\ contextHandler(handlers, invoked[m].i) = invoked[m].h
    /\ \A m \in Invocations : invoked[m].ctx = "route" =>
           invoked[m].i >= 0 /\ invoked[m].i < Len(rctx.handlers)
    /\ AtHandlerCall => contextHandler(handlers, index) \notin {InvalidIndex, IndexOutOfRange}

\* C21, the case: a handler of a global chain of two called Next() twice (no
\* Stop(), nothing written) after the chain ran on into the handlers of a route
C21_Witness ==
    /\ stack # <<>> /\ Top.f = "h" /\ Top.ctx = "top" /\ Top.ops = 2
    /\ stops = {} /\ rw = <<>>
    /\ Len(handlers) >= 2
    /\ Cardinality({m \in Invocations : invoked[m].ctx = "route"}) >= 1

\* a sender is at its send on cClose while the channel is full: Stop() that
\* may read the counter as zero, or the ServeHTTP whose decrement gives zero
\* with isStopping set
StopAtFullChannel == spc = "closing" /\ 0 \in countHist /\ cClose = 1
ServeAtFullChannel ==
    \E r \in DOMAIN rpc :
        rpc[r] = "dispatch" /\ isStopping /\ AddInt32(activeCount, -1) = 0 /\ cClose = 1

\* C22: in every interleaving of Stop() with requests that complete, at most
\* one signal is sent on cClose, and no Stop() or ServeHTTP comes to its send
\* with the channel full, so none blocks on the channel once Run has taken the
\* one signal.
C22_AtMostOneSignal ==
    /\ sent <= 1
    /\ ~StopAtFullChannel
    /\ ~ServeAtFullChannel

\* C22, the case: Stop() ran while a request was in flight, every request has
\* completed since, Run has taken the signal, and one signal was sent
C22_Witness ==
    /\ spc = "done" /\ atStop # {}
    /\ \A r \in DOMAIN rpc : rpc[r] = "done"
    /\ runpc = "returned"
    /\ sent = 1 /\ cClose = 0

====
